---- MODULE Spec2Model ----
(***************************************************************************)
(* A model of crown's OS layer, src/core/os.cpp (namespace crown::os).     *)
(*                                                                         *)
(* The file selects one implementation per function at compile time        *)
(* (CROWN_PLATFORM_POSIX / _LINUX / _OSX / _WINDOWS).  The variable        *)
(* platform holds the branch the build selected; it never changes.         *)
(*                                                                         *)
(* CE_ASSERT(cond, ...) is recorded by its condition: field ok of a result *)
(* is TRUE iff every CE_ASSERT condition the call evaluated was true.  The *)
(* field ret is what the statements after the assertion compute.           *)
(***************************************************************************)
EXTENDS Integers, Sequences, FiniteSets, TLC

VARIABLES
    platform,   \* the platform branch compiled in
    fs,         \* the file system: path -> entry
    last,       \* the last file-system call: [op, path, ok, ret, files0, files]
    created,    \* paths made by a successful create_file and not deleted since
    proc,       \* the last execute_process call: the program, the sink, the result
    clock,      \* the OS clocks: CLOCK_MONOTONIC, the wall clock, the counter
    reads,      \* the last two values of clocktime() and of clockfrequency()
    slept       \* the last sleep() call and what it asked of the OS

fsVars == <<fs, last, created>>

timeVars == <<clock, reads, slept>>

vars == <<platform, fs, last, created, proc, clock, reads, slept>>

----------------------------------------------------------------------------
(* Platforms *)

Platforms == {"linux", "osx", "windows"}

\* platform.h: CROWN_PLATFORM_POSIX covers the Linux, Android and OSX builds.
CROWN_PLATFORM_POSIX(pl) == pl \in {"linux", "android", "osx"}

----------------------------------------------------------------------------
(* The file system the OS calls act on *)

\* Number of child names under the directory "d".
NumChildren == 2

\* Longest vector a caller passes to list_files.
MaxPrior == 1

ChildNames == <<"a.txt", "sub", "c", "e">>

Root == <<>>

Dir == <<"d">>

Lnk == <<"l">>

Child(i) == <<"d", ChildNames[i]>>

Paths == {Dir, Lnk} \cup {Child(i) : i \in 1..NumChildren}

Parent(p) == SubSeq(p, 1, Len(p) - 1)

Name(p) == p[Len(p)]

None == [kind |-> "none", size |-> 0, target |-> Root, dirlink |-> FALSE]

RegFile(n) == [kind |-> "file", size |-> n, target |-> Root, dirlink |-> FALSE]

Directory == [kind |-> "dir", size |-> 0, target |-> Root, dirlink |-> FALSE]

SymLink(t, d) == [kind |-> "link", size |-> 0, target |-> t, dirlink |-> d]

\* p names a real directory (the root always is one).
IsDirAt(f, p) == p = Root \/ (p \in Paths /\ f[p].kind = "dir")

\* The entry at p itself, a final symbolic link not followed.
Lookup(f, p) ==
    IF p \in Paths /\ IsDirAt(f, Parent(p)) THEN f[p] ELSE None

\* The path p stands for once a final symbolic link is followed.
Resolve(f, p) ==
    IF Lookup(f, p).kind = "link" THEN Lookup(f, p).target ELSE p

\* The entry at p, a final symbolic link followed.
Follow(f, p) == Lookup(f, Resolve(f, p))

Children(f, p) == {q \in Paths : Parent(q) = p /\ f[q].kind # "none"}

----------------------------------------------------------------------------
(* POSIX calls used by the CROWN_PLATFORM_POSIX branches *)

\* st_mode of a struct stat that memset() zeroed and lstat() did not fill.
ZeroMode == "0"

ModeOf(k) ==
    CASE k = "file" -> "S_IFREG"
      [] k = "dir"  -> "S_IFDIR"
      [] k = "link" -> "S_IFLNK"
      [] OTHER      -> ZeroMode

S_ISDIR(m) == m = "S_IFDIR"

S_ISREG(m) == m = "S_IFREG"

S_ISLNK(m) == m = "S_IFLNK"

\* lstat(path, &info): the entry itself, links not followed; info is left as
\* it was (zeroed) when the call fails.
lstat(f, p) ==
    LET e == Lookup(f, p)
    IN  IF e.kind = "none"
        THEN [err |-> -1, st_mode |-> ZeroMode]
        ELSE [err |-> 0, st_mode |-> ModeOf(e.kind)]

\* access(path, F_OK): follows symbolic links.
access(f, p) == IF Follow(f, p).kind = "none" THEN -1 ELSE 0

\* A mknod that, like open(O_CREAT | O_TRUNC), takes an existing file over.
mknod_replaces(f, p) ==
    IF IsDirAt(f, Parent(p)) /\ Lookup(f, p).kind \in {"none", "file"}
    THEN [err |-> 0, fs |-> [f EXCEPT ![p] = RegFile(0)]]
    ELSE [err |-> -1, fs |-> f]

\* mknod(path, 0644 | S_IFREG, 0): EEXIST on any entry (a link included),
\* ENOENT when the parent is missing.
mknod(f, p) ==
    IF IsDirAt(f, Parent(p)) /\ Lookup(f, p).kind = "none"
    THEN [err |-> 0, fs |-> [f EXCEPT ![p] = RegFile(0)]]
    ELSE [err |-> -1, fs |-> f]

\* unlink(path): removes a file or a link; ENOENT, or EISDIR on a directory.
unlink(f, p) ==
    IF Lookup(f, p).kind \in {"file", "link"}
    THEN [err |-> 0, fs |-> [f EXCEPT ![p] = None]]
    ELSE [err |-> -1, fs |-> f]

\* mkdir(path, 0755)
mkdir(f, p) ==
    IF IsDirAt(f, Parent(p)) /\ Lookup(f, p).kind = "none"
    THEN [err |-> 0, fs |-> [f EXCEPT ![p] = Directory]]
    ELSE [err |-> -1, fs |-> f]

\* rmdir(path): an empty directory only (ENOTDIR on a link, ENOTEMPTY).
rmdir(f, p) ==
    IF Lookup(f, p).kind = "dir" /\ Children(f, p) = {}
    THEN [err |-> 0, fs |-> [f EXCEPT ![p] = None]]
    ELSE [err |-> -1, fs |-> f]

\* opendir(path): the directory stream, or NULL; follows symbolic links.
opendir(f, p) ==
    IF Follow(f, p).kind = "dir"
    THEN [null |-> FALSE, dir |-> Resolve(f, p)]
    ELSE [null |-> TRUE, dir |-> Root]

\* The names a directory stream yields: the children, "." and "..".
DirNames(f, d) == {Name(q) : q \in Children(f, d)} \cup {".", ".."}

\* The orders in which readdir() / FindNextFile() may yield a set of names.
RECURSIVE Orders(_)
Orders(S) ==
    IF S = {}
    THEN {<<>>}
    ELSE UNION {{<<x>> \o o : o \in Orders(S \ {x})} : x \in S}

----------------------------------------------------------------------------
(* Win32 calls used by the CROWN_PLATFORM_WINDOWS branches *)

INVALID_FILE_ATTRIBUTES == {"INVALID"}

FILE_ATTRIBUTE_DIRECTORY == "DIRECTORY"

FILE_ATTRIBUTE_REPARSE_POINT == "REPARSE_POINT"

\* GetFileAttributes(path): the attributes of the entry itself; for a symbolic
\* link those of the link (a directory link carries FILE_ATTRIBUTE_DIRECTORY).
GetFileAttributes(f, p) ==
    LET e == Lookup(f, p)
    IN  CASE e.kind = "none" -> INVALID_FILE_ATTRIBUTES
          [] e.kind = "file" -> {}
          [] e.kind = "dir"  -> {FILE_ATTRIBUTE_DIRECTORY}
          [] e.kind = "link" ->
                {FILE_ATTRIBUTE_REPARSE_POINT}
                \cup (IF e.dirlink THEN {FILE_ATTRIBUTE_DIRECTORY} ELSE {})

\* _access(path, 0): 0 when the entry has attributes.
win_access(f, p) ==
    IF GetFileAttributes(f, p) = INVALID_FILE_ATTRIBUTES THEN -1 ELSE 0

\* CreateFile(path, GENERIC_READ | GENERIC_WRITE, 0, NULL, CREATE_ALWAYS, ...):
\* creates the file, or truncates an existing one; follows a symbolic link;
\* fails on a directory and on a missing parent.
CreateFile(f, p) ==
    LET t == Resolve(f, p)
    IN  IF t \in Paths /\ IsDirAt(f, Parent(t)) /\ Lookup(f, t).kind \in {"none", "file"}
        THEN [invalid |-> FALSE, fs |-> [f EXCEPT ![t] = RegFile(0)]]
        ELSE [invalid |-> TRUE, fs |-> f]

\* DeleteFile(path): removes a file or a file link, never a directory.
DeleteFile(f, p) ==
    LET a == GetFileAttributes(f, p)
    IN  IF a # INVALID_FILE_ATTRIBUTES /\ FILE_ATTRIBUTE_DIRECTORY \notin a
        THEN [err |-> 1, fs |-> [f EXCEPT ![p] = None]]
        ELSE [err |-> 0, fs |-> f]

\* CreateDirectory(path, NULL)
CreateDirectory(f, p) ==
    IF IsDirAt(f, Parent(p)) /\ Lookup(f, p).kind = "none"
    THEN [err |-> 1, fs |-> [f EXCEPT ![p] = Directory]]
    ELSE [err |-> 0, fs |-> f]

\* RemoveDirectory(path): an empty directory, or a directory link itself.
RemoveDirectory(f, p) ==
    LET e == Lookup(f, p)
    IN  IF \/ e.kind = "dir" /\ Children(f, p) = {}
           \/ e.kind = "link" /\ e.dirlink
        THEN [err |-> 1, fs |-> [f EXCEPT ![p] = None]]
        ELSE [err |-> 0, fs |-> f]

\* FindFirstFile(path + "\\*", &ffd): INVALID_HANDLE_VALUE unless path leads
\* to a directory.
FindFirstFile(f, p) ==
    IF Follow(f, p).kind = "dir"
    THEN [invalid |-> FALSE, dir |-> Resolve(f, p)]
    ELSE [invalid |-> TRUE, dir |-> Root]

----------------------------------------------------------------------------
(* crown::os, file-system functions.  Each operator is one function of     *)
(* os.cpp on platform branch pl and file system f; it yields ok (every     *)
(* CE_ASSERT condition held), ret (the value returned) and, for a function *)
(* that changes the file system, fs.                                       *)

\* bool exists(const char* path)
exists(pl, f, p) ==
    IF CROWN_PLATFORM_POSIX(pl)
    THEN [ok |-> TRUE, ret |-> access(f, p) # -1]
    ELSE [ok |-> TRUE, ret |-> win_access(f, p) # -1]

\* bool is_directory(const char* path)
is_directory(pl, f, p) ==
    IF CROWN_PLATFORM_POSIX(pl)
    THEN LET r == lstat(f, p)
         IN  [ok  |-> r.err = 0,
              ret |-> S_ISDIR(r.st_mode) /\ ~S_ISLNK(r.st_mode)]
    ELSE LET fattr == GetFileAttributes(f, p)
         IN  [ok  |-> TRUE,
              ret |-> fattr # INVALID_FILE_ATTRIBUTES
                      /\ FILE_ATTRIBUTE_DIRECTORY \in fattr]

\* An is_file that kept is_directory's test when it was copied from it.
is_file_tests_dir(pl, f, p) == is_directory(pl, f, p)

\* bool is_file(const char* path)
is_file(pl, f, p) ==
    IF CROWN_PLATFORM_POSIX(pl)
    THEN LET r == lstat(f, p)
         IN  [ok  |-> r.err = 0,
              ret |-> S_ISREG(r.st_mode) /\ ~S_ISLNK(r.st_mode)]
    ELSE LET fattr == GetFileAttributes(f, p)
         IN  [ok  |-> TRUE,
              ret |-> fattr # INVALID_FILE_ATTRIBUTES
                      /\ FILE_ATTRIBUTE_DIRECTORY \notin fattr]

\* void create_file(const char* path)
create_file(pl, f, p) ==
    IF CROWN_PLATFORM_POSIX(pl)
    THEN LET r == mknod(f, p) IN [ok |-> r.err = 0, fs |-> r.fs]
    ELSE LET r == CreateFile(f, p) IN [ok |-> ~r.invalid, fs |-> r.fs]

\* void delete_file(const char* path)
delete_file(pl, f, p) ==
    IF CROWN_PLATFORM_POSIX(pl)
    THEN LET r == unlink(f, p) IN [ok |-> r.err = 0, fs |-> r.fs]
    ELSE LET r == DeleteFile(f, p) IN [ok |-> r.err # 0, fs |-> r.fs]

\* void create_directory(const char* path)
create_directory(pl, f, p) ==
    IF CROWN_PLATFORM_POSIX(pl)
    THEN LET r == mkdir(f, p) IN [ok |-> r.err = 0, fs |-> r.fs]
    ELSE LET r == CreateDirectory(f, p) IN [ok |-> r.err # 0, fs |-> r.fs]

\* void delete_directory(const char* path)
delete_directory(pl, f, p) ==
    IF CROWN_PLATFORM_POSIX(pl)
    THEN LET r == rmdir(f, p) IN [ok |-> r.err = 0, fs |-> r.fs]
    ELSE LET r == RemoveDirectory(f, p) IN [ok |-> r.err # 0, fs |-> r.fs]

\* A loop body that skips "." only.
RECURSIVE PushNames_keeps_dotdot(_, _)
PushNames_keeps_dotdot(vec, names) ==
    IF names = <<>>
    THEN vec
    ELSE LET dname == Head(names)
         IN  IF dname = "."
             THEN PushNames_keeps_dotdot(vec, Tail(names))
             ELSE PushNames_keeps_dotdot(Append(vec, dname), Tail(names))

\* The loop body of list_files over the names the stream yields, in order:
\* "." and ".." are skipped, every other name is pushed back.
RECURSIVE PushNames(_, _)
PushNames(vec, names) ==
    IF names = <<>>
    THEN vec
    ELSE LET dname == Head(names)
         IN  IF dname = "." \/ dname = ".."
             THEN PushNames(vec, Tail(names))
             ELSE PushNames(Append(vec, dname), Tail(names))

\* void list_files(const char* path, Vector<DynamicString>& files): the
\* vectors the call may leave, one per order the OS may enumerate in.
list_files(pl, f, p, vec) ==
    IF CROWN_PLATFORM_POSIX(pl)
    THEN LET d == opendir(f, p)
         IN  IF d.null
             THEN {vec}
             ELSE {PushNames(vec, o) : o \in Orders(DirNames(f, d.dir))}
    ELSE LET h == FindFirstFile(f, p)
         IN  IF h.invalid
             THEN {vec}
             ELSE {PushNames(vec, o) : o \in Orders(DirNames(f, h.dir))}

----------------------------------------------------------------------------
(* crown::os::execute_process *)

\* Longest sequence of writes of a child program.
MaxWrites == 2

\* sizeof(buf) of the fgets() loop.
BufSize == 1024

NUL == "NUL"

NewLine == "\n"

Bytes == {"h", "!", NewLine, NUL}

ExitCodes == {0, 1, 127, 255}

STDOUT_FILENO == 1

STDERR_FILENO == 2

\* What /bin/sh writes to its standard error when the command is not found
\* (the text "sh: 1: <path>: not found" shortened to one byte and a newline).
ShNotFound == <<"!", NewLine>>

\* A path that names a program: what the child writes, in order, to which
\* descriptor, and the code it exits with.
Program(w, c) == [found |-> TRUE, writes |-> w, code |-> c]

\* A path that names no executable.
NoProgram == [found |-> FALSE, writes |-> <<>>, code |-> 0]

Write(fd, b) == [fd |-> fd, byte |-> b]

Hello ==
    <<Write(STDOUT_FILENO, "h"), Write(STDOUT_FILENO, "e"), Write(STDOUT_FILENO, "l"),
      Write(STDOUT_FILENO, "l"), Write(STDOUT_FILENO, "o")>>

Programs ==
    {NoProgram}
    \cup {Program(Hello, c) : c \in ExitCodes}
    \cup {Program(w, c) :
            w \in UNION {[1..n -> {Write(fd, b) : fd \in {STDOUT_FILENO, STDERR_FILENO},
                                                  b \in Bytes}] : n \in 0..MaxWrites},
            c \in ExitCodes}

\* The sinks a caller passes in: empty, or holding earlier output.
Sinks == {<<>>, <<"h">>}

BytesOf(w) == [i \in 1..Len(w) |-> w[i].byte]

Min(a, b) == IF a < b THEN a ELSE b

\* fgets(buf, n, file): the number of bytes of stream it stores: up to n - 1,
\* stopping after the first newline.
fgets(stream, n) ==
    LET lim == Min(Len(stream), n - 1)
        nl  == {i \in 1..lim : stream[i] = NewLine}
    IN  IF nl = {} THEN lim ELSE CHOOSE i \in nl : \A j \in nl : i <= j

\* output << buf: buf is appended as a C string, up to its first NUL.
StreamCString(out, buf) ==
    LET z == {i \in 1..Len(buf) : buf[i] = NUL}
        n == IF z = {} THEN Len(buf) ELSE (CHOOSE i \in z : \A j \in z : i <= j) - 1
    IN  out \o SubSeq(buf, 1, n)

\* while (fgets(buf, sizeof(buf), file) != NULL) output << buf;
RECURSIVE ReadLoop(_, _)
ReadLoop(out, stream) ==
    IF stream = <<>>
    THEN out
    ELSE LET k == fgets(stream, BufSize)
         IN  ReadLoop(StreamCString(out, SubSeq(stream, 1, k)),
                      SubSeq(stream, k + 1, Len(stream)))

\* popen(path + " 2>&1 " + args, "r"): /bin/sh runs the command with its
\* standard error joined to the pipe; a command that is not found makes the
\* shell write its message and exit with 127.
popen(prog) ==
    IF prog.found
    THEN [stream |-> BytesOf(prog.writes), code |-> prog.code]
    ELSE [stream |-> ShNotFound, code |-> 127]

\* pclose(file): waits for the shell and returns its wait status, the exit
\* code in bits 8..15.
pclose(code) == code * 256

\* CreateProcess(path, args, NULL, NULL, TRUE, 0, NULL, NULL, &info, &process):
\* the child inherits the caller's standard handles; 0 when nothing starts.
CreateProcess(prog) ==
    IF prog.found
    THEN [err |-> 1, inherited |-> BytesOf(prog.writes), code |-> prog.code]
    ELSE [err |-> 0, inherited |-> <<>>, code |-> 0]

\* int execute_process(const char* path, const char* args, StringStream& output)
\* ok: the CE_ASSERT condition; ret: the value returned; output: the sink at
\* return; console: what reached the caller's own standard handles.
execute_process(pl, prog, output) ==
    IF CROWN_PLATFORM_POSIX(pl)
    THEN LET file == popen(prog)
         IN  [ok      |-> TRUE,
              ret     |-> pclose(file.code),
              output  |-> ReadLoop(output, file.stream),
              console |-> <<>>]
    ELSE LET r == CreateProcess(prog)
         IN  [ok      |-> r.err # 0,
              \* exitcode = 1 stays when GetExitCodeProcess has no process
              ret     |-> IF r.err # 0 THEN r.code ELSE 1,
              output  |-> output,
              console |-> r.inherited]

NoExec ==
    [called |-> FALSE, prog |-> NoProgram, output0 |-> <<>>,
     ok |-> TRUE, ret |-> 0, output |-> <<>>, console |-> <<>>]

----------------------------------------------------------------------------
(* crown::os::clocktime, clockfrequency, sleep *)

\* Number of half-second steps the OS clocks advance.
MaxTicks == 4

\* Largest ordinary value passed to sleep(), besides the values at the edge
\* of the 32-bit range.
MaxSleepMs == 3

Giga == 1000000000

\* An s64 tick count hi * 10^9 + lo, kept in two parts.
S64(hi, lo) == [hi |-> hi + lo \div Giga, lo |-> lo % Giga]

Geq(a, b) == a.hi > b.hi \/ (a.hi = b.hi /\ a.lo >= b.lo)

\* The clocks at boot: CLOCK_MONOTONIC as a timespec, the wall clock as a
\* timeval, the performance counter and its frequency.
Boot(qpf) ==
    [mono |-> [tv_sec |-> 0, tv_nsec |-> 0],
     wall |-> [tv_sec |-> 2, tv_usec |-> 0],
     qpc  |-> 0,
     qpf  |-> qpf,
     ticks |-> 0]

\* s64 clocktime()
clocktime(pl, c) ==
    CASE pl \in {"linux", "android"} -> S64(c.mono.tv_sec, c.mono.tv_nsec)
      [] pl = "osx"     -> S64(0, c.wall.tv_sec * 1000000 + c.wall.tv_usec)
      [] pl = "windows" -> S64(0, c.qpc)

\* s64 clockfrequency()
clockfrequency(pl, c) ==
    CASE pl \in {"linux", "android"} -> 1000000000
      [] pl = "osx"     -> 1000000
      [] pl = "windows" -> c.qpf

Two16 == 2 ^ 16

\* A u32 in two 16-bit halves, hi * 2^16 + lo.
U32(hi, lo) == [hi |-> hi, lo |-> lo]

\* The product ms * 1000 in the integers: its low 16 bits in lo, all the
\* bits above them in hi.
Times1000(ms) ==
    LET l == ms.lo * 1000
    IN  [hi |-> ms.hi * 1000 + l \div Two16, lo |-> l % Two16]

\* ms * 1000 in 32-bit unsigned arithmetic: the low 32 bits of the product.
MulU32By1000(ms) ==
    LET prod == Times1000(ms)
    IN  U32(prod.hi % Two16, prod.lo)

\* void sleep(u32 ms): the call made to the OS and its argument.
sleep(pl, ms) ==
    IF CROWN_PLATFORM_POSIX(pl)
    THEN [call |-> "usleep", arg |-> MulU32By1000(ms)]
    ELSE [call |-> "Sleep", arg |-> ms]

NoReads ==
    [nt |-> 0, t0 |-> S64(0, 0), t1 |-> S64(0, 0), nf |-> 0, f0 |-> 0, f1 |-> 0]

NoSleep == [called |-> FALSE, ms |-> U32(0, 0), call |-> "none", arg |-> U32(0, 0)]

----------------------------------------------------------------------------
(* The file-system specification: any sequence of calls on any path *)

\* The vectors a caller passes to list_files.
PriorVectors ==
    {[i \in 1..n |-> "old"] : n \in 0..MaxPrior} \cup {<<ChildNames[1]>>}

\* The file systems a run starts on: "d" is a directory, its first child is
\* absent or a file with data in it, "l" is absent or a symbolic link to the
\* directory or to that child (dangling when the child is absent).
InitialFileSystems ==
    {[p \in Paths |->
        CASE p = Dir      -> Directory
          [] p = Child(1) -> c
          [] p = Lnk      -> l
          [] OTHER        -> None] :
     c \in {None, RegFile(1)},
     l \in {None, SymLink(Dir, TRUE), SymLink(Child(1), FALSE)}}

\* The record of a call: the function, its path, whether every CE_ASSERT
\* condition held, the value returned (FALSE for a void function) and, for
\* list_files, the caller's vector before (files0) and after (files) the call.
Call(op, p, ok, ret, files0, files) ==
    [op |-> op, path |-> p, ok |-> ok, ret |-> ret, files0 |-> files0, files |-> files]

NoCall == Call("none", Root, TRUE, FALSE, <<>>, <<>>)

InitFS ==
    /\ platform \in {"linux", "windows"}
    /\ fs \in InitialFileSystems
    /\ last = NoCall
    /\ created = {}
    /\ proc = NoExec
    /\ clock = Boot(10000000)
    /\ reads = NoReads
    /\ slept = NoSleep

Query(op, p, r) ==
    /\ last' = Call(op, p, r.ok, r.ret, <<>>, <<>>)
    /\ UNCHANGED <<platform, fs, created, proc, timeVars>>

Exists(p) == Query("exists", p, exists(platform, fs, p))

IsDirectory(p) == Query("is_directory", p, is_directory(platform, fs, p))

IsFile(p) == Query("is_file", p, is_file(platform, fs, p))

Mutate(op, p, r, made) ==
    /\ fs' = r.fs
    /\ last' = Call(op, p, r.ok, FALSE, <<>>, <<>>)
    /\ created' = made
    /\ UNCHANGED <<platform, proc, timeVars>>

CreateFileCall(p) ==
    LET r == create_file(platform, fs, p)
    IN  Mutate("create_file", p, r,
               IF r.ok /\ Lookup(fs, p).kind = "none"
               THEN created \cup {p} ELSE created)

DeleteFileCall(p) ==
    LET r == delete_file(platform, fs, p)
    IN  Mutate("delete_file", p, r, IF r.ok THEN created \ {p} ELSE created)

CreateDirectoryCall(p) ==
    Mutate("create_directory", p, create_directory(platform, fs, p), created)

DeleteDirectoryCall(p) ==
    Mutate("delete_directory", p, delete_directory(platform, fs, p), created)

ListFiles(p) ==
    \E vec \in PriorVectors :
        \E out \in list_files(platform, fs, p, vec) :
            /\ last' = Call("list_files", p, TRUE, FALSE, vec, out)
            /\ UNCHANGED <<platform, fs, created, proc, timeVars>>

NextFS ==
    \E p \in Paths :
        \/ Exists(p)
        \/ IsDirectory(p)
        \/ IsFile(p)
        \/ CreateFileCall(p)
        \/ DeleteFileCall(p)
        \/ CreateDirectoryCall(p)
        \/ DeleteDirectoryCall(p)
        \/ ListFiles(p)

SpecFS == InitFS /\ [][NextFS]_vars

----------------------------------------------------------------------------
(* Claims about the file-system functions, checked under SpecFS *)

Queries == {"exists", "is_directory", "is_file"}

\* C1: a path at which nothing existed and that create_file made is reported
\* by exists and is_file, and not by is_directory, in every later state up
\* to a successful delete_file of it; after a successful delete_file(p),
\* exists(p) is false.
C1_CreatedFileIsAFile ==
    /\ \A p \in created :
          /\ exists(platform, fs, p).ret
          /\ is_file(platform, fs, p).ok
          /\ is_file(platform, fs, p).ret
          /\ ~is_directory(platform, fs, p).ret
    /\ last.op = "delete_file" /\ last.ok => ~exists(platform, fs, last.path).ret
    /\ last.op \in Queries /\ last.path \in created =>
          last.ok /\ last.ret = (last.op # "is_directory")

C1_Witness ==
    /\ last.op = "is_file"
    /\ last.path \in created
    /\ last.ret
    /\ Cardinality(created) > 1

\* C2: exists, is_file and is_directory never fail an assertion, and return
\* false for a path at which nothing exists.
C2_QueriesNeverFail ==
    last.op \in Queries =>
        /\ last.ok
        /\ Lookup(fs, last.path).kind = "none" => last.ret = FALSE

\* C3: is_file(p) is true exactly when p is a regular file and not a symbolic
\* link, is_directory(p) exactly when p is a directory and not a symbolic
\* link; for a symbolic link both are false.
C3_LinksAreNeither ==
    /\ last.op = "is_file" => last.ret = (Lookup(fs, last.path).kind = "file")
    /\ last.op = "is_directory" => last.ret = (Lookup(fs, last.path).kind = "dir")

\* C4 as claimed: create_file fails, and leaves the file system as it was,
\* whenever the parent directory is missing or an entry exists at the path.
C4_CreateFailsOnExisting ==
    [][last'.op = "create_file" =>
          LET p == last'.path
          IN  ~IsDirAt(fs, Parent(p)) \/ Lookup(fs, p).kind # "none"
              => ~last'.ok /\ fs' = fs]_vars

\* C4 as amended: create_file fails when the parent directory is missing, on
\* every branch; when an entry exists at the path it fails on the POSIX
\* branch, and on the Windows branch it fails on a directory but truncates
\* an existing regular file and succeeds.
C4_CreateOnExistingByPlatform ==
    [][last'.op = "create_file" =>
          LET p == last'.path
          IN
             /\ ~IsDirAt(fs, Parent(p)) => ~last'.ok /\ fs' = fs
             /\ CROWN_PLATFORM_POSIX(platform) /\ Lookup(fs, p).kind # "none"
                   => ~last'.ok /\ fs' = fs
             /\ ~CROWN_PLATFORM_POSIX(platform) /\ Lookup(fs, p).kind = "dir"
                   => ~last'.ok /\ fs' = fs
             /\ ~CROWN_PLATFORM_POSIX(platform) /\ Lookup(fs, p).kind = "file"
                   => last'.ok /\ fs' = [fs EXCEPT ![p] = RegFile(0)]]_vars

C4_Witness ==
    /\ last.op = "create_file"
    /\ ~last.ok
    /\ Lookup(fs, last.path) = RegFile(1)

Range(s) == {s[i] : i \in 1..Len(s)}

\* C5 as claimed: after list_files on a directory that can be opened the
\* vector holds exactly the names of the children, each once, and never "."
\* or ".."; when the path cannot be opened the vector is empty.
C5_VectorIsTheListing ==
    last.op = "list_files" =>
        IF Follow(fs, last.path).kind = "dir"
        THEN /\ Range(last.files) =
                    {Name(q) : q \in Children(fs, Resolve(fs, last.path))}
             /\ Len(last.files) = Cardinality(Range(last.files))
        ELSE last.files = <<>>

\* C5 as amended: list_files appends to the vector, after what it held
\* before the call, exactly the names of the children, each once, and never
\* "." or ".."; when the path cannot be opened the vector is left as it was.
C5_ListingIsAppended ==
    last.op = "list_files" =>
        LET n0    == Len(last.files0)
            added == SubSeq(last.files, n0 + 1, Len(last.files))
        IN  /\ Len(last.files) >= n0
            /\ SubSeq(last.files, 1, n0) = last.files0
            /\ IF Follow(fs, last.path).kind = "dir"
               THEN /\ Range(added) =
                          {Name(q) : q \in Children(fs, Resolve(fs, last.path))}
                    /\ Len(added) = Cardinality(Range(added))
                    /\ "." \notin Range(added) /\ ".." \notin Range(added)
               ELSE added = <<>>

C5_Witness ==
    /\ last.op = "list_files"
    /\ last.files0 # <<>>
    /\ Len(last.files) = Len(last.files0) + 2

----------------------------------------------------------------------------
(* The process specification: any call of execute_process *)

InitProc ==
    /\ platform \in {"linux", "windows"}
    /\ fs \in {f \in InitialFileSystems : \A p \in Paths \ {Dir} : f[p] = None}
    /\ last = NoCall
    /\ created = {}
    /\ proc = NoExec
    /\ clock = Boot(10000000)
    /\ reads = NoReads
    /\ slept = NoSleep

ExecuteProcess ==
    \E prog \in Programs, output \in Sinks :
        LET r == execute_process(platform, prog, output)
        IN  /\ proc' = [called |-> TRUE, prog |-> prog, output0 |-> output,
                        ok |-> r.ok, ret |-> r.ret, output |-> r.output,
                        console |-> r.console]
            /\ UNCHANGED <<platform, fsVars, timeVars>>

NextProc == ExecuteProcess

SpecProc == InitProc /\ [][NextProc]_vars

----------------------------------------------------------------------------
(* The time specification: the OS clocks run, the wall clock may be set     *)
(* back, and the program reads the clock, its frequency, and sleeps         *)

\* The values passed to sleep(): small ones, and those around 2^32 / 1000
\* and the largest u32.
SleepInputs ==
    {U32(0, n) : n \in 0..MaxSleepMs}
    \cup {U32(0, 1000),
          U32(65, 35127),         \* 4294967
          U32(65, 35128),         \* 4294968
          U32(Two16 - 1, Two16 - 1)}

InitTime ==
    /\ platform \in Platforms
    /\ fs \in {f \in InitialFileSystems : \A p \in Paths \ {Dir} : f[p] = None}
    /\ last = NoCall
    /\ created = {}
    /\ proc = NoExec
    /\ clock \in {Boot(f) : f \in {10000000, 2500000}}
    /\ reads = NoReads
    /\ slept = NoSleep

\* Half a second passes on every clock of the OS.
Tick ==
    /\ clock.ticks < MaxTicks
    /\ clock' =
         [mono  |-> [tv_sec  |-> clock.mono.tv_sec + (clock.mono.tv_nsec + 500000000) \div Giga,
                     tv_nsec |-> (clock.mono.tv_nsec + 500000000) % Giga],
          wall  |-> [tv_sec  |-> clock.wall.tv_sec + (clock.wall.tv_usec + 500000) \div 1000000,
                     tv_usec |-> (clock.wall.tv_usec + 500000) % 1000000],
          qpc   |-> clock.qpc + clock.qpf \div 2,
          qpf   |-> clock.qpf,
          ticks |-> clock.ticks + 1]
    /\ UNCHANGED <<platform, fsVars, proc, reads, slept>>

\* The system's wall clock is set back by a second (settimeofday, NTP).
SetWallClockBack ==
    /\ clock.wall.tv_sec > 0
    /\ clock' = [clock EXCEPT !.wall.tv_sec = @ - 1]
    /\ UNCHANGED <<platform, fsVars, proc, reads, slept>>

ClockTime ==
    /\ reads' = [reads EXCEPT !.nt = Min(2, @ + 1),
                              !.t0 = reads.t1,
                              !.t1 = clocktime(platform, clock)]
    /\ UNCHANGED <<platform, fsVars, proc, clock, slept>>

ClockFrequency ==
    /\ reads' = [reads EXCEPT !.nf = Min(2, @ + 1),
                              !.f0 = reads.f1,
                              !.f1 = clockfrequency(platform, clock)]
    /\ UNCHANGED <<platform, fsVars, proc, clock, slept>>

Sleep ==
    \E ms \in SleepInputs :
        LET r == sleep(platform, ms)
        IN  /\ slept' = [called |-> TRUE, ms |-> ms, call |-> r.call, arg |-> r.arg]
            /\ UNCHANGED <<platform, fsVars, proc, clock, reads>>

NextTime ==
    \/ Tick
    \/ SetWallClockBack
    \/ ClockTime
    \/ ClockFrequency
    \/ Sleep

SpecTime == InitTime /\ [][NextTime]_vars

----------------------------------------------------------------------------
(* Claims about execute_process, checked under SpecProc *)

\* C6: at return the sink holds what it held before the call followed by
\* everything the child wrote to standard output and standard error, in the
\* order written; a child that prints "hello" and exits with 0 leaves
\* "hello" in the sink and 0 as the return value.
C6_OutputIsCaptured ==
    proc.called /\ proc.prog.found =>
        /\ proc.output = proc.output0 \o BytesOf(proc.prog.writes)
        /\ proc.prog.writes = Hello /\ proc.prog.code = 0 => proc.ret = 0

\* C7: a child that exits with code c makes execute_process return c.
C7_ReturnsExitCode ==
    proc.called /\ proc.prog.found => proc.ok /\ proc.ret = proc.prog.code

Outcome(r) == <<r.ok, r.ret, r.output>>

\* C8: the outcome of a call whose path names no executable differs from
\* the outcome of every call whose child ran and exited with a non-zero code.
C8_SpawnFailureIsDistinct ==
    proc.called /\ ~proc.prog.found =>
        \A q \in Programs :
            q.found /\ q.code # 0 =>
                Outcome(execute_process(platform, q, proc.output0)) # Outcome(proc)

----------------------------------------------------------------------------
(* Claims about sleep and the clock, checked under SpecTime *)

\* C9: the microsecond count the POSIX branch passes to usleep is never
\* smaller than 1000 * ms.
C9_SleepNeverUndershoots ==
    slept.called /\ slept.call = "usleep" => Geq(slept.arg, Times1000(slept.ms))

\* C10: of two successive clocktime() values the later is not smaller, also
\* when the wall clock was set back in between; two successive
\* clockfrequency() values are equal.
C10_ClockIsMonotonic ==
    /\ reads.nt >= 2 => Geq(reads.t1, reads.t0)
    /\ reads.nf >= 2 => reads.f1 = reads.f0

====
